---- MODULE Spec2Model ----
(***************************************************************************)
(* Model of mystl::avl (src/avl.h): a sentinel-based AVL map.  The heap is *)
(* a pool of node cells addressed by integers; every pointer field of the  *)
(* C++ node is a cell address or nullptr.  Each public member function of  *)
(* avl is one action; the private helpers and the node member functions    *)
(* are operators over the heap, translated statement by statement.         *)
(***************************************************************************)
EXTENDS Integers, Sequences, FiniteSets, TLC

\* ---------------------------------------------------------------- bounds
\* Keys are 0..MaxKey, mapped values 0..MaxVal.
MaxKey == 3
MaxVal == 1
\* Where two trees are checked together the keys are 0..MaxKeyCopy, the
\* mapped values 0..MaxValCopy, and the uninitialized heights of one copy
\* read either as 0 (fresh zero-filled memory) or as MaxGarbage.
MaxKeyCopy == 1
MaxValCopy == 1
MaxGarbage == 3
\* Where only the shape of one tree matters (default values, inserts and
\* erases by key) the keys are 0..MaxKeyRebal.
MaxKeyRebal == 5

\* ------------------------------------------------------ program constants
nullptr == 0
\* Key() and Value(): value_type() of a node built without an entry.
DefaultKey == 0
DefaultVal == 0

Keys == 0..MaxKey
KeysCopy == 0..MaxKeyCopy
KeysRebal == 0..MaxKeyRebal
Vals == 0..MaxVal
ValsCopy == 0..MaxValCopy
Garbage == {0, MaxGarbage}

\* The avl objects of the program: m1 and m2.
Tree == {1, 2}


\* ------------------------------------------------------------ state
VARIABLES
  heap,   \* the cells in use: address (1..Len) -> node object (struct node)
  root,   \* root[t]: avl::root of tree t, nullptr while t is not constructed
  sz,     \* sz[t]: avl::sz of tree t
  fault,  \* TRUE once a call dereferenced nullptr (the process is gone)
  last    \* the most recent public call: its name, arguments and result

vars == <<heap, root, sz, fault, last>>

\* struct node: value (key, val), parent, left, right, height.
FreeCell ==
  [alloc |-> FALSE, key |-> DefaultKey, val |-> DefaultVal, parent |-> nullptr,
   left |-> nullptr, right |-> nullptr, height |-> 0]

\* A node constructor that ignores its entry.
NewCell_default(k, v) ==
  [alloc |-> TRUE, key |-> DefaultKey, val |-> DefaultVal, parent |-> nullptr,
   left |-> nullptr, right |-> nullptr, height |-> 0]

\* node(const value_type& v = value_type())
NewCell(k, v) ==
  [alloc |-> TRUE, key |-> k, val |-> v, parent |-> nullptr,
   left |-> nullptr, right |-> nullptr, height |-> 0]

\* operator new: the lowest free cell, or a fresh one past the cells in use.
NewAddr(h) ==
  CHOOSE n \in 1..(Len(h) + 1) :
    /\ n <= Len(h) => ~h[n].alloc
    /\ \A m \in 1..(n - 1) : h[m].alloc
New(h, n, cell) == IF n <= Len(h) THEN [h EXCEPT ![n] = cell] ELSE Append(h, cell)

Max(a, b) == IF a >= b THEN a ELSE b

\* F applied to the value of x, computed once.
With(x, F(_)) == F(x)

\* ------------------------------------------------------ node accessors
is_root(h, n) == h[n].parent = nullptr
is_external(h, n) == h[n].left = nullptr /\ h[n].right = nullptr
is_internal(h, n) == ~is_external(h, n)

\* node::leftmost
RECURSIVE leftmostLoop(_, _)
leftmostLoop(h, n) ==
  IF is_internal(h, n) THEN leftmostLoop(h, h[n].left) ELSE h[n].parent
leftmost(h, n) == leftmostLoop(h, n)

\* node::inorder_next: [ok, n]; climbing past the super-root reads nullptr.
RECURSIVE nextClimb(_, _, _)
nextClimb(h, n, w) ==
  IF w = nullptr THEN [ok |-> FALSE, n |-> nullptr]
  ELSE IF n = h[w].right THEN nextClimb(h, w, h[w].parent)
  ELSE [ok |-> TRUE, n |-> w]
inorder_next(h, n) ==
  IF is_internal(h, h[n].right)
  THEN [ok |-> TRUE, n |-> leftmost(h, h[n].right)]
  ELSE nextClimb(h, n, h[n].parent)

\* The descent of inorder_prev following left instead of right.
RECURSIVE rightmostLoop_left(_, _)
rightmostLoop_left(h, n) ==
  IF is_internal(h, n) THEN rightmostLoop_left(h, h[n].left) ELSE h[n].parent

\* node::inorder_prev
RECURSIVE rightmostLoop(_, _)
rightmostLoop(h, n) ==
  IF is_internal(h, n) THEN rightmostLoop(h, h[n].right) ELSE h[n].parent
RECURSIVE prevClimb(_, _, _)
prevClimb(h, n, w) ==
  IF w = nullptr THEN [ok |-> FALSE, n |-> nullptr]
  ELSE IF n = h[w].left THEN prevClimb(h, w, h[w].parent)
  ELSE [ok |-> TRUE, n |-> w]
inorder_prev(h, n) ==
  IF is_internal(h, h[n].left)
  THEN [ok |-> TRUE, n |-> rightmostLoop(h, h[n].left)]
  ELSE prevClimb(h, n, h[n].parent)

\* ------------------------------------------------------ node modifiers
\* A helper result is a record [h, ok]: the heap it leaves and whether it ran
\* without dereferencing nullptr.
Ok(h) == [h |-> h, ok |-> TRUE]
Crash(h) == [h |-> h, ok |-> FALSE]

\* replace storing the key and leaving the mapped value as it was.
replace_key_only(h, n, k, v) == [h EXCEPT ![n].key = k]

\* node::replace
replace(h, n, k, v) == [h EXCEPT ![n].key = k, ![n].val = v]

\* node::set_height: reads left->height and right->height.
set_height(h, n) ==
  IF h[n].left = nullptr \/ h[n].right = nullptr
  THEN Crash(h)
  ELSE Ok([h EXCEPT ![n].height = 1 + Max(h[h[n].left].height, h[h[n].right].height)])

\* node::expand
expand(h, n) ==
  With(NewAddr(h), LAMBDA l :
  With(New(h, l, NewCell(DefaultKey, DefaultVal)), LAMBDA h1 :
  With(NewAddr(h1), LAMBDA r :
  With([New(h1, r, NewCell(DefaultKey, DefaultVal)) EXCEPT ![n].left = l, ![n].right = r],
       LAMBDA h3 :
  With(set_height(h3, n).h, LAMBDA h4 :
    [h4 EXCEPT ![l].parent = n, ![r].parent = n])))))

\* remove_above_external leaving the promoted sibling's parent link as it was.
remove_above_external_stale_parent(h, w) ==
  LET par  == h[w].parent
      sib  == IF w = h[par].left THEN h[par].right ELSE h[par].left
      gpar == h[par].parent
  IN  With(IF par = h[gpar].left THEN [h EXCEPT ![gpar].left = sib]
                                 ELSE [h EXCEPT ![gpar].right = sib], LAMBDA h1 :
        [h |-> [h1 EXCEPT ![par].left = nullptr, ![par].right = nullptr,
                          ![w] = FreeCell,
                          ![par] = FreeCell],
         sib |-> sib])

\* node::remove_above_external: called on an external node w; returns the
\* heap and the sibling that was promoted.
remove_above_external(h, w) ==
  LET par  == h[w].parent
      sib  == IF w = h[par].left THEN h[par].right ELSE h[par].left
      gpar == h[par].parent
  IN  With(IF par = h[gpar].left THEN [h EXCEPT ![gpar].left = sib]
                                 ELSE [h EXCEPT ![gpar].right = sib], LAMBDA h1 :
        [h |-> [h1 EXCEPT ![sib].parent = gpar,
                          ![par].left = nullptr, ![par].right = nullptr,
                          ![w] = FreeCell,
                          ![par] = FreeCell],
         sib |-> sib])

\* ------------------------------------------------------ avl helpers
\* avl::finder
RECURSIVE finderLoop(_, _, _)
finderLoop(h, v, k) ==
  IF is_internal(h, v) /\ h[v].key # k
  THEN IF k < h[v].key THEN finderLoop(h, h[v].left, k)
                       ELSE finderLoop(h, h[v].right, k)
  ELSE v
\* finder stepping back from an external node to the last internal node of
\* the search path.
finder_last_internal(h, rt, k) ==
  With(finderLoop(h, h[rt].left, k), LAMBDA v :
    IF is_external(h, v) /\ h[v].parent # rt THEN h[v].parent ELSE v)
finder(h, rt, k) == finderLoop(h, h[rt].left, k)

\* is_balanced accepting every node.
is_balanced_always(h, v) == TRUE

\* avl::is_balanced
is_balanced(h, v) ==
  LET bal == h[h[v].left].height - h[h[v].right].height
  IN  (-1 <= bal) /\ (bal <= 1)

\* avl::tall_grandchild: [ok, x]; reads the heights of zl's or zr's children.
tall_grandchild(h, z) ==
  LET zl == h[z].left
      zr == h[z].right
  IN  IF h[zl].height >= h[zr].height
      THEN IF is_external(h, zl) THEN [ok |-> FALSE, x |-> nullptr]
           ELSE IF h[h[zl].left].height >= h[h[zl].right].height
                THEN [ok |-> TRUE, x |-> h[zl].left]
                ELSE [ok |-> TRUE, x |-> h[zl].right]
      ELSE IF is_external(h, zr) THEN [ok |-> FALSE, x |-> nullptr]
           ELSE IF h[h[zr].right].height >= h[h[zr].left].height
                THEN [ok |-> TRUE, x |-> h[zr].right]
                ELSE [ok |-> TRUE, x |-> h[zr].left]

\* trinode with the two double rotations labelled like single rotations.
trinode_single_only(h, x) ==
  LET y == h[x].parent
      z == h[y].parent
  IN  IF h[z].right = y THEN <<z, y, x>> ELSE <<x, y, z>>

\* The in-order labelling a, b, c of the trinode of tall grandchild x.
trinode(h, x) ==
  LET y == h[x].parent
      z == h[y].parent
  IN  IF h[z].right = y /\ h[y].right = x THEN <<z, y, x>>
      ELSE IF h[z].left = y /\ h[y].left = x THEN <<x, y, z>>
      ELSE IF h[z].right = y /\ h[y].left = x THEN <<z, x, y>>
      ELSE <<y, x, z>>

\* avl::restructure: [h, ok, b], b the new root of the trinode.  The two
\* transplants read b->left->parent and b->right->parent.
restructure(h, x) ==
  LET y   == h[x].parent
      z   == h[y].parent
      abc == trinode(h, x)
      a   == abc[1]
      b   == abc[2]
      c   == abc[3]
      zp  == h[z].parent
  IN  With(IF h[zp].left = z THEN [h EXCEPT ![zp].left = b] ELSE h, LAMBDA h1 :
      With(IF h1[zp].right = z THEN [h1 EXCEPT ![zp].right = b] ELSE h1, LAMBDA h2 :
      With([h2 EXCEPT ![b].parent = h2[z].parent, ![a].parent = b, ![c].parent = b],
           LAMBDA h5 :
      With(h5[b].left, LAMBDA bl :
        IF bl # a /\ bl = nullptr
        THEN [h |-> [h5 EXCEPT ![a].right = bl], ok |-> FALSE, b |-> b]
        ELSE
      With(IF bl # a THEN [h5 EXCEPT ![a].right = bl, ![bl].parent = a, ![b].left = a]
                     ELSE [h5 EXCEPT ![b].left = a], LAMBDA h7 :
      With(h7[b].right, LAMBDA br :
        IF br # c /\ br = nullptr
        THEN [h |-> [h7 EXCEPT ![c].left = br], ok |-> FALSE, b |-> b]
        ELSE IF br # c
        THEN [h |-> [h7 EXCEPT ![c].left = br, ![br].parent = c, ![b].right = c],
              ok |-> TRUE, b |-> b]
        ELSE [h |-> [h7 EXCEPT ![b].right = c], ok |-> TRUE, b |-> b]))))))

\* The height update of the new trinode root alone.
trinode_heights_root_only(h, z) == set_height(h, z)

\* The three height updates that follow restructure in avl::rebalance:
\* z->left->set_height(); z->right->set_height(); z->set_height().
trinode_heights(h, z) ==
  With(set_height(h, h[z].left), LAMBDA s1 :
    IF ~s1.ok THEN s1
    ELSE With(set_height(s1.h, h[z].right), LAMBDA s2 :
           IF ~s2.ok THEN s2 ELSE set_height(s2.h, z)))

\* avl::rebalance: the while loop, entered with z.
RECURSIVE rebalanceLoop(_, _)
rebalanceLoop(h, z) ==
  IF h[z].parent = nullptr THEN Crash(h)
  ELSE IF is_root(h, h[z].parent) THEN Ok(h)
  ELSE LET z1 == h[z].parent
       IN  With(set_height(h, z1), LAMBDA s1 :
             IF ~s1.ok THEN s1
             ELSE IF is_balanced(s1.h, z1) THEN rebalanceLoop(s1.h, z1)
             ELSE With(tall_grandchild(s1.h, z1), LAMBDA tg :
                    IF ~tg.ok THEN Crash(s1.h)
                    ELSE With(restructure(s1.h, tg.x), LAMBDA rs :
                           IF ~rs.ok THEN Crash(rs.h)
                           ELSE With(trinode_heights(rs.h, rs.b), LAMBDA s2 :
                                  IF ~s2.ok THEN s2
                                  ELSE rebalanceLoop(s2.h, rs.b)))))
rebalance(h, v) == rebalanceLoop(h, v)

\* The calls of restructure that avl::rebalance makes when entered with z, in
\* order: for each the tall grandchild x it is given, the heap before the
\* call and the heap after it.
RECURSIVE rebalanceCalls(_, _)
rebalanceCalls(h, z) ==
  IF h[z].parent = nullptr \/ is_root(h, h[z].parent) THEN <<>>
  ELSE LET z1 == h[z].parent
       IN  With(set_height(h, z1), LAMBDA s1 :
             IF ~s1.ok THEN <<>>
             ELSE IF is_balanced(s1.h, z1) THEN rebalanceCalls(s1.h, z1)
             ELSE With(tall_grandchild(s1.h, z1), LAMBDA tg :
                    IF ~tg.ok THEN <<>>
                    ELSE With(restructure(s1.h, tg.x), LAMBDA rs :
                         With([x |-> tg.x, before |-> s1.h, after |-> rs.h], LAMBDA c :
                           IF ~rs.ok THEN <<c>>
                           ELSE With(trinode_heights(rs.h, rs.b), LAMBDA s2 :
                                  IF ~s2.ok THEN <<c>>
                                  ELSE <<c>> \o rebalanceCalls(s2.h, rs.b))))))

\* The calls of restructure made by avl::inserter for an entry (k, v) whose
\* key is not stored.
inserterCalls(h, rt, k, v) ==
  With(finder(h, rt, k), LAMBDA n :
    IF is_external(h, n) THEN rebalanceCalls(replace(expand(h, n), n, k, v), n)
    ELSE <<>>)

\* inserter assigning the value when the key is already stored.
inserter_assign(h, rt, s, k, v) ==
  With(finder(h, rt, k), LAMBDA n :
    IF is_external(h, n)
    THEN With(rebalance(replace(expand(h, n), n, k, v), n), LAMBDA rb :
           [h |-> rb.h, ok |-> rb.ok, sz |-> IF rb.ok THEN s + 1 ELSE s,
            n |-> n, changed |-> TRUE])
    ELSE [h |-> replace(h, n, k, v), ok |-> TRUE, sz |-> s, n |-> n, changed |-> FALSE])

\* inserter without sz++.
inserter_keep_sz(h, rt, s, k, v) ==
  With(finder(h, rt, k), LAMBDA n :
    IF is_external(h, n)
    THEN With(rebalance(replace(expand(h, n), n, k, v), n), LAMBDA rb :
           [h |-> rb.h, ok |-> rb.ok, sz |-> s, n |-> n, changed |-> TRUE])
    ELSE [h |-> h, ok |-> TRUE, sz |-> s, n |-> n, changed |-> FALSE])

\* avl::inserter on a tree with root rt and size s: [h, ok, sz, n, changed];
\* sz++ is reached only when rebalance returns.
inserter(h, rt, s, k, v) ==
  With(finder(h, rt, k), LAMBDA n :
    IF is_external(h, n)
    THEN With(rebalance(replace(expand(h, n), n, k, v), n), LAMBDA rb :
           [h |-> rb.h, ok |-> rb.ok, sz |-> IF rb.ok THEN s + 1 ELSE s,
            n |-> n, changed |-> TRUE])
    ELSE [h |-> h, ok |-> TRUE, sz |-> s, n |-> n, changed |-> FALSE])

\* eraser_w without the replace of the two-children case.
eraser_w_no_replace(h, n) ==
  IF is_external(h, h[n].left) THEN [h |-> h, w |-> h[n].left]
  ELSE IF is_external(h, h[n].right) THEN [h |-> h, w |-> h[n].right]
  ELSE With(inorder_next(h, n).n, LAMBDA w : [h |-> h, w |-> h[w].left])

\* The external node w that avl::eraser hands to remove_above_external, with
\* the heap after the replace of the two-children case: [h, w].
eraser_w(h, n) ==
  IF is_external(h, h[n].left) THEN [h |-> h, w |-> h[n].left]
  ELSE IF is_external(h, h[n].right) THEN [h |-> h, w |-> h[n].right]
  ELSE With(inorder_next(h, n).n, LAMBDA w :
         [h |-> replace(h, n, h[w].key, h[w].val), w |-> h[w].left])

\* eraser without --sz.
eraser_keep_sz(h, s, n) ==
  With(eraser_w(h, n), LAMBDA e :
  With(remove_above_external(e.h, e.w), LAMBDA r :
    [h |-> r.h, sz |-> s, sib |-> r.sib]))

\* avl::eraser on a tree of size s: [h, sz, sib], sib the node
\* remove_above_external returns.
eraser(h, s, n) ==
  With(eraser_w(h, n), LAMBDA e :
  With(remove_above_external(e.h, e.w), LAMBDA r :
    [h |-> r.h, sz |-> s - 1, sib |-> r.sib]))

\* ------------------------------------------------------ addresses
\* The program never orders or computes with addresses, so two heaps that
\* differ by a renaming of cells are one program state.  Every call leaves
\* the representative whose cells are numbered in preorder from root[1], then
\* root[2], then the cell the call's result refers to; a cell that no pointer
\* of the program reaches any more (leaked by at()) can never be read again
\* and is dropped.
Range(s) == {s[i] : i \in DOMAIN s}

RECURSIVE preorder(_, _, _)
preorder(h, stack, out) ==
  IF stack = <<>> THEN out
  ELSE LET n == Head(stack)
       IN  IF n = nullptr \/ n \in Range(out)
           THEN preorder(h, Tail(stack), out)
           ELSE preorder(h, <<h[n].left, h[n].right>> \o Tail(stack), Append(out, n))

\* The new address of cell n under the numbering order (nullptr if dropped).
Renaming(order, n) ==
  IF n = nullptr THEN nullptr
  ELSE CHOOSE i \in 0..Len(order) :
         IF i = 0 THEN \A j \in DOMAIN order : order[j] # n ELSE order[i] = n

Renamed(h, order) ==
  [i \in 1..Len(order) |->
     [h[order[i]] EXCEPT !.parent = Renaming(order, @), !.left = Renaming(order, @),
                         !.right = Renaming(order, @)]]

\* ------------------------------------------------------ public interface
Call(op, t, k, v, pos, ret, num, thrown) ==
  [op |-> op, t |-> t, k |-> k, v |-> v, pos |-> pos, ret |-> ret,
   num |-> num, thrown |-> thrown]

Constructed(t) == root[t] # nullptr

\* The end of a call: the heap h, the roots and sizes it leaves, whether it
\* ran without dereferencing nullptr, and the record of the call.  After a
\* nullptr dereference the process is gone: memory stays as the call left it
\* and no further call is made.
Return(h, rts, s, ok, call) ==
  IF ok
  THEN With(preorder(h, <<rts[1], rts[2], call.ret>>, <<>>), LAMBDA order :
           /\ heap' = Renamed(h, order)
           /\ root' = [t \in Tree |-> Renaming(order, rts[t])]
           /\ sz' = s
           /\ fault' = FALSE
           /\ last' = [call EXCEPT !.pos = Renaming(order, @),
                                   !.ret = Renaming(order, @)])
  ELSE /\ heap' = h
       /\ root' = rts
       /\ sz' = s
       /\ fault' = TRUE
       /\ last' = [call EXCEPT !.pos = nullptr, !.ret = nullptr]

\* avl::avl(): cell 1 is m1's super-root, expanded; m2 is not constructed.
Init ==
  LET r  == NewAddr(<<>>)
      h1 == New(<<>>, r, NewCell(DefaultKey, DefaultVal))
  IN  /\ heap = expand(h1, r)
      /\ root = [t \in Tree |-> IF t = 1 THEN r ELSE nullptr]
      /\ sz = [t \in Tree |-> 0]
      /\ fault = FALSE
      /\ last = Call("avl", 1, DefaultKey, DefaultVal, nullptr, nullptr, 0, FALSE)

\* avl::begin / avl::end
begin(h, rt) == leftmost(h, rt)
end(h, rt) == rt

\* avl::insert(const value_type&): returns (iterator(n.first), n.second);
\* num is the bool (1 = inserted).
Insert(t, k, v) ==
  /\ ~fault /\ Constructed(t)
  /\ With(inserter(heap, root[t], sz[t], k, v), LAMBDA r :
       Return(r.h, root, [sz EXCEPT ![t] = r.sz], r.ok,
              Call("insert", t, k, v, nullptr, r.n, IF r.changed THEN 1 ELSE 0, FALSE)))

\* operator[] returning a reference into a copy of the node, as at does.
Subscript_copy(t, k) ==
  /\ ~fault /\ Constructed(t)
  /\ With(inserter(heap, root[t], sz[t], k, DefaultVal), LAMBDA r :
     With(NewAddr(r.h), LAMBDA n :
       Return(New(r.h, n, NewCell(r.h[r.n].key, r.h[r.n].val)), root,
              [sz EXCEPT ![t] = r.sz], r.ok,
              Call("subscript", t, k, DefaultVal, nullptr, n, 0, FALSE))))

\* avl::operator[]: inserter((k, Value())); returns a reference to the mapped
\* value of the node (ret is that node).
Subscript(t, k) ==
  /\ ~fault /\ Constructed(t)
  /\ With(inserter(heap, root[t], sz[t], k, DefaultVal), LAMBDA r :
       Return(r.h, root, [sz EXCEPT ![t] = r.sz], r.ok,
              Call("subscript", t, k, DefaultVal, nullptr, r.n, 0, FALSE)))

\* find without the comparison that turns an external node into end().
find_unchecked(h, rt, k) == finder(h, rt, k)

\* avl::find: iterator(b) when finder ends on an internal node, else end().
find(h, rt, k) ==
  LET b == finder(h, rt, k)
  IN  IF is_internal(h, b) THEN b ELSE end(h, rt)

\* at behaving like operator[]: an absent key is inserted, nothing thrown.
At_or_insert(t, k) ==
  /\ ~fault /\ Constructed(t)
  /\ With(inserter(heap, root[t], sz[t], k, DefaultVal), LAMBDA r :
       Return(r.h, root, [sz EXCEPT ![t] = r.sz], r.ok,
              Call("at", t, k, DefaultVal, nullptr, r.n, 0, FALSE)))

\* avl::at: throws when find(k) == end(); otherwise copies the entry into a
\* new node and returns a reference to that node's mapped value.
At(t, k) ==
  /\ ~fault /\ Constructed(t)
  /\ LET m == find(heap, root[t], k)
     IN  IF m = end(heap, root[t])
         THEN Return(heap, root, sz, TRUE,
                     Call("at", t, k, DefaultVal, nullptr, nullptr, 0, TRUE))
         ELSE With(NewAddr(heap), LAMBDA n :
                Return(New(heap, n, NewCell(heap[m].key, heap[m].val)), root, sz, TRUE,
                       Call("at", t, k, DefaultVal, nullptr, n, 0, FALSE)))

\* avl::erase(const Key&): returns the number of entries removed.
EraseKey(t, k) ==
  /\ ~fault /\ Constructed(t)
  /\ LET n == finder(heap, root[t], k)
     IN  IF is_internal(heap, n)
         THEN With(eraser(heap, sz[t], n), LAMBDA e :
                Return(e.h, root, [sz EXCEPT ![t] = e.sz], TRUE,
                       Call("erase_key", t, k, DefaultVal, nullptr, nullptr, 1, FALSE)))
         ELSE Return(heap, root, sz, TRUE,
                     Call("erase_key", t, k, DefaultVal, nullptr, nullptr, 0, FALSE))

\* avl::erase(const_iterator): reads the key at the position, looks it up
\* again with finder, throws out_of_range when finder ends on an external
\* node, and returns iterator(eraser(n)) otherwise.
ErasePos(t, pos) ==
  /\ ~fault /\ Constructed(t)
  /\ LET k == heap[pos].key
         n == finder(heap, root[t], k)
     IN  IF is_external(heap, n)
         THEN Return(heap, root, sz, TRUE,
                     Call("erase_pos", t, k, DefaultVal, pos, nullptr, 0, TRUE))
         ELSE With(eraser(heap, sz[t], n), LAMBDA e :
                Return(e.h, root, [sz EXCEPT ![t] = e.sz], TRUE,
                       Call("erase_pos", t, k, DefaultVal, pos, e.sib, 0, FALSE)))

\* The cells below and including n.
RECURSIVE subtree(_, _)
subtree(h, n) ==
  IF n = nullptr THEN {}
  ELSE {n} \cup subtree(h, h[n].left) \cup subtree(h, h[n].right)

\* node::~node: delete left; delete right; then the cell itself.
RECURSIVE destroy(_, _)
destroy(h, n) ==
  IF n = nullptr THEN h
  ELSE [destroy(destroy(h, h[n].left), h[n].right) EXCEPT ![n] = FreeCell]

\* clear without sz = 0.
Clear_keep_sz(t) ==
  /\ ~fault /\ Constructed(t)
  /\ With(destroy(heap, root[t]), LAMBDA h1 :
     With(NewAddr(h1), LAMBDA r :
       Return(expand(New(h1, r, NewCell(DefaultKey, DefaultVal)), r),
              [root EXCEPT ![t] = r], sz, TRUE,
              Call("clear", t, DefaultKey, DefaultVal, nullptr, nullptr, sz[t], FALSE))))

\* avl::clear; num records the size() the tree had when it was called.
Clear(t) ==
  /\ ~fault /\ Constructed(t)
  /\ With(destroy(heap, root[t]), LAMBDA h1 :
     With(NewAddr(h1), LAMBDA r :
       Return(expand(New(h1, r, NewCell(DefaultKey, DefaultVal)), r),
              [root EXCEPT ![t] = r], [sz EXCEPT ![t] = 0], TRUE,
              Call("clear", t, DefaultKey, DefaultVal, nullptr, nullptr, sz[t], FALSE))))

\* avl::avl() for an object not yet constructed.
Construct(t) ==
  /\ ~fault /\ ~Constructed(t)
  /\ With(NewAddr(heap), LAMBDA r :
       Return(expand(New(heap, r, NewCell(DefaultKey, DefaultVal)), r),
              [root EXCEPT ![t] = r], [sz EXCEPT ![t] = 0], TRUE,
              Call("avl", t, DefaultKey, DefaultVal, nullptr, nullptr, 0, FALSE)))

\* A copy that shares the source's nodes.
clone_shallow(h, n, g) == [h |-> h, n |-> n]

\* node(const node& n): [h, n], the heap after the deep copy and the copy's
\* address.  The initializer list leaves height out, so every cell of the
\* copy holds an indeterminate height, g.
RECURSIVE clone(_, _, _)
clone(h, n, g) ==
  With(NewAddr(h), LAMBDA c :
  With(New(h, c, [NewCell(h[n].key, h[n].val) EXCEPT !.height = g]), LAMBDA h1 :
    IF is_internal(h, n)
    THEN With(clone(h1, h[n].left, g), LAMBDA l :
         With(clone(l.h, h[n].right, g), LAMBDA r :
           [h |-> [r.h EXCEPT ![c].left = l.n, ![c].right = r.n,
                              ![l.n].parent = c, ![r.n].parent = c],
            n |-> c]))
    ELSE [h |-> h1, n |-> c]))

\* avl::avl(const avl& m): t is constructed as a copy of u.
CopyConstruct(t, u) ==
  /\ ~fault /\ ~Constructed(t) /\ Constructed(u)
  /\ \E g \in Garbage :
       With(clone(heap, root[u], g), LAMBDA c :
         Return(c.h, [root EXCEPT ![t] = c.n], [sz EXCEPT ![t] = sz[u]], TRUE,
                Call("copy", t, DefaultKey, DefaultVal, nullptr, nullptr, 0, FALSE)))

\* avl::operator=(const avl& m): t = u; nothing happens when t is u.
CopyAssign(t, u) ==
  /\ ~fault /\ Constructed(t) /\ Constructed(u)
  /\ IF t = u
     THEN Return(heap, root, sz, TRUE,
                 Call("assign", t, DefaultKey, DefaultVal, nullptr, nullptr, 0, FALSE))
     ELSE \E g \in Garbage :
            With(clone(destroy(heap, root[t]), root[u], g), LAMBDA c :
              Return(c.h, [root EXCEPT ![t] = c.n], [sz EXCEPT ![t] = sz[u]], TRUE,
                     Call("assign", t, DefaultKey, DefaultVal, nullptr, nullptr, 0, FALSE)))

\* avl::size / avl::empty
size(s) == s
empty(s) == s = 0

Find(t, k) ==
  /\ ~fault /\ Constructed(t)
  /\ Return(heap, root, sz, TRUE,
            Call("find", t, k, DefaultVal, nullptr, find(heap, root[t], k), 0, FALSE))

\* avl::count
count(h, rt, k) == IF is_internal(h, finder(h, rt, k)) THEN 1 ELSE 0

Count(t, k) ==
  /\ ~fault /\ Constructed(t)
  /\ Return(heap, root, sz, TRUE,
            Call("count", t, k, DefaultVal, nullptr, nullptr, count(heap, root[t], k), FALSE))

\* The caller assigns v through the Value& that the call just made returned:
\* m[k] = v or m.at(k) = v.  The reference is the mapped value of node
\* last.ret.
WriteRef(v) ==
  /\ ~fault /\ last.op \in {"at", "subscript"} /\ ~last.thrown /\ last.ret # nullptr
  /\ Return([heap EXCEPT ![last.ret].val = v], root, sz, TRUE,
            Call(IF last.op = "at" THEN "write_at" ELSE "write_subscript",
                 last.t, last.k, v, nullptr, last.ret, 0, FALSE))

\* The positions a caller can hold for tree t: end() and every entry.
Positions(t) ==
  {root[t]} \cup {n \in subtree(heap, heap[root[t]].left) : is_internal(heap, n)}

\* ------------------------------------------------------ specification
\* One avl object, m1, under every call of the map interface.
Next ==
  \/ \E k \in Keys, v \in Vals : Insert(1, k, v)
  \/ \E k \in Keys : Subscript(1, k)
  \/ \E k \in Keys : At(1, k)
  \/ \E k \in Keys : EraseKey(1, k)
  \/ \E p \in Positions(1) : ErasePos(1, p)
  \/ Clear(1)
  \/ \E k \in Keys : Find(1, k)
  \/ \E k \in Keys : Count(1, k)
  \/ \E v \in Vals : WriteRef(v)

Spec == Init /\ [][Next]_vars

\* Two avl objects, m1 and m2, each under the calls that change a tree; m2 is
\* constructed empty or as a copy of m1, and m1 is assigned to m2 and to
\* itself.
NextCopy ==
  \/ \E t \in Tree, k \in KeysCopy, v \in ValsCopy : Insert(t, k, v)
  \/ \E t \in Tree, k \in KeysCopy : Subscript(t, k)
  \/ \E t \in Tree, k \in KeysCopy : EraseKey(t, k)
  \/ \E t \in Tree : Constructed(t) /\ \E p \in Positions(t) : ErasePos(t, p)
  \/ \E t \in Tree : Clear(t)
  \/ Construct(2)
  \/ CopyConstruct(2, 1)
  \/ \E t \in Tree : CopyAssign(t, 1)
  \/ \E v \in ValsCopy : WriteRef(v)

SpecCopy == Init /\ [][NextCopy]_vars

\* One avl object under inserts of default values, by insert and by
\* operator[], and erases by key, over a larger range of keys.
NextRebal ==
  \/ \E k \in KeysRebal : Insert(1, k, DefaultVal)
  \/ \E k \in KeysRebal : Subscript(1, k)
  \/ \E k \in KeysRebal : EraseKey(1, k)

SpecRebal == Init /\ [][NextRebal]_vars

\* ------------------------------------------------------ observations
\* What the properties below read off a heap.  Each is bounded by the number
\* of cells, so it is defined on any heap.

\* The cells reachable from n through left and right.
Reach(h, n) == Range(preorder(h, <<n>>, <<>>))

\* The internal nodes below the super-root rt.
InternalNodes(h, rt) == {n \in Reach(h, h[rt].left) : is_internal(h, n)}

\* The actual height of n: 0 for an external node, else 1 + max of the children.
RECURSIVE ActualHeight(_, _, _)
ActualHeight(h, n, fuel) ==
  IF n = nullptr \/ fuel = 0 \/ is_external(h, n) THEN 0
  ELSE 1 + Max(ActualHeight(h, h[n].left, fuel - 1), ActualHeight(h, h[n].right, fuel - 1))
Height(h, n) == ActualHeight(h, n, Len(h))

\* The keys held by the internal nodes of the subtree of n.
SubtreeKeys(h, n) == {h[m].key : m \in {x \in Reach(h, n) : is_internal(h, x)}}

\* The nodes visited from begin() by ++ until end() (at most fuel of them).
RECURSIVE walkFrom(_, _, _, _)
walkFrom(h, rt, n, fuel) ==
  IF n = rt \/ n = nullptr \/ fuel = 0 THEN <<>>
  ELSE <<n>> \o walkFrom(h, rt, inorder_next(h, n).n, fuel - 1)
Walk(h, rt) == walkFrom(h, rt, begin(h, rt), Len(h))

\* The keys, and the entries, in iteration order.
WalkKeys(h, rt) == With(Walk(h, rt), LAMBDA w : [i \in DOMAIN w |-> h[w[i]].key])
Entries(h, rt) == {<<h[n].key, h[n].val>> : n \in Range(Walk(h, rt))}
StoredKeys(h, rt) == {h[n].key : n \in Range(Walk(h, rt))}

\* The key/value pairs in iteration order.
WalkEntries(h, rt) ==
  With(Walk(h, rt), LAMBDA w : [i \in DOMAIN w |-> <<h[w[i]].key, h[w[i]].val>>])

\* The nodes visited from end() by -- until begin() (at most fuel of them).
RECURSIVE backFrom(_, _, _, _)
backFrom(h, first, n, fuel) ==
  IF fuel = 0 THEN <<>>
  ELSE With(inorder_prev(h, n), LAMBDA p :
         IF ~p.ok THEN <<>>
         ELSE IF p.n = first THEN <<p.n>>
         ELSE <<p.n>> \o backFrom(h, first, p.n, fuel - 1))
BackWalk(h, rt) == backFrom(h, begin(h, rt), end(h, rt), Len(h))

Reverse(q) == [i \in DOMAIN q |-> q[Len(q) + 1 - i]]

\* The part of the heap that belongs to the tree with super-root rt.
TreeOf(h, rt) == [n \in Reach(h, rt) |-> h[n]]

\* ------------------------------------------------------ properties

\* C1: after any sequence of insert, operator[] and erase calls on an initially
\* empty avl, every internal node below the super-root has left and right
\* subtrees whose actual heights differ by at most 1.
Balanced(h, rt) ==
  \A n \in InternalNodes(h, rt) :
    LET d == Height(h, h[n].left) - Height(h, h[n].right)
    IN  -1 <= d /\ d <= 1
C1_BalanceAfterAnyCalls == ~fault => Balanced(heap, root[1])

\* C2: walking from begin() to end() with ++ yields strictly increasing keys,
\* and at every internal node the keys of the left subtree are smaller and
\* the keys of the right subtree larger than the node's key.
StrictlyIncreasing(q) == \A i \in DOMAIN q : \A j \in DOMAIN q : i < j => q[i] < q[j]
BstOrder(h, rt) ==
  \A n \in InternalNodes(h, rt) :
    /\ \A k \in SubtreeKeys(h, h[n].left) : k < h[n].key
    /\ \A k \in SubtreeKeys(h, h[n].right) : k > h[n].key
C2_BstOrder ==
  ~fault => /\ StrictlyIncreasing(WalkKeys(heap, root[1]))
            /\ BstOrder(heap, root[1])
            /\ Len(Walk(heap, root[1])) = Cardinality(InternalNodes(heap, root[1]))
\* A tree of at least three entries that an erase has just left with a true
\* root holding two internal children.
C2_Witness ==
  /\ ~fault /\ last.op \in {"erase_key", "erase_pos"} /\ ~last.thrown /\ last.num = 1
  /\ sz[1] >= 3
  /\ LET r == heap[root[1]].left
     IN  is_internal(heap, heap[r].left) /\ is_internal(heap, heap[r].right)

\* C3: after any sequence of insert, operator[], erase by key or position,
\* clear, copy construction and copy assignment, size() equals the number of
\* internal nodes below the super-root and the number of entries visited from
\* begin() to end(), and empty() is true exactly when that number is 0.
SizeConsistent(h, rt, s) ==
  /\ size(s) = Cardinality(InternalNodes(h, rt))
  /\ size(s) = Len(Walk(h, rt))
  /\ empty(s) <=> Len(Walk(h, rt)) = 0
C3_SizeConsistent ==
  ~fault => \A t \in Tree : Constructed(t) => SizeConsistent(heap, root[t], sz[t])
\* m2 is a copy of a two-entry m1 (one of its external nodes still holds an
\* indeterminate height) and has since lost an entry to an erase, so the two
\* sizes differ.
C3_Witness ==
  /\ ~fault /\ Constructed(2) /\ last.op \in {"erase_key", "erase_pos"} /\ last.t = 2
  /\ ~last.thrown /\ sz[2] = 1 /\ sz[1] = 2
  /\ \E n \in subtree(heap, root[2]) : is_external(heap, n) /\ heap[n].height # 0

\* C11: at(k) for a stored key k returns a reference to the value stored in
\* the tree for k: a value written through it is what find(k) then denotes,
\* and at(k) creates no node.
C11_AtRefIsStoredValue ==
  (~fault /\ last.op = "write_at") =>
    /\ heap[find(heap, root[last.t], last.k)].val = last.v
    /\ last.ret \in Reach(heap, root[last.t])

\* C12: at(k) for a key k that is not stored throws out_of_range and leaves
\* size(), contents and structure of the tree unchanged; k is not inserted.
C12_AtAbsentThrows ==
  [][(~fault /\ last'.op = "at" /\ last'.k \notin StoredKeys(heap, root[last'.t])) =>
       LET t == last'.t
       IN  /\ ~fault'
           /\ last'.thrown
           /\ root' = root
           /\ sz' = sz
           /\ TreeOf(heap', root'[t]) = TreeOf(heap, root[t])
           /\ last'.k \notin StoredKeys(heap', root'[t])
    ]_vars
\* at of an absent key has thrown on a tree that holds smaller and larger
\* keys.
C12_Witness ==
  /\ ~fault /\ last.op = "at" /\ last.thrown
  /\ last.k \notin StoredKeys(heap, root[1])
  /\ \E k1 \in StoredKeys(heap, root[1]) : k1 < last.k
  /\ \E k2 \in StoredKeys(heap, root[1]) : k2 > last.k

\* C13: erase(position) with the end position (the super-root) throws
\* out_of_range and removes nothing, whatever keys the tree holds: size() and
\* contents are unchanged.
C13_EraseEndThrows ==
  [][(~fault /\ last'.op = "erase_pos" /\ last'.pos = root'[last'.t]) =>
       LET t == last'.t
       IN  /\ ~fault'
           /\ last'.thrown
           /\ sz'[t] = sz[t]
           /\ Entries(heap', root'[t]) = Entries(heap, root[t])
    ]_vars

\* C14: operator[](k) on a stored key returns a reference to the stored value
\* and changes neither size() nor any entry; on a key that is not stored it
\* inserts k with the default value, size() grows by exactly 1 and the
\* reference is to the newly stored value; a value assigned through the
\* reference is what find(k) yields afterwards.
C14_Subscript ==
  [][(~fault /\ last'.op \in {"subscript", "write_subscript"}) =>
       LET t      == last'.t
           k      == last'.k
           stored == k \in StoredKeys(heap, root[t])
           f      == find(heap', root'[t], k)
       IN  /\ ~fault'
           /\ f # end(heap', root'[t])
           /\ last'.ret = f
           /\ heap'[f].key = k
           /\ (last'.op = "subscript" /\ stored) =>
                 /\ sz' = sz
                 /\ Entries(heap', root'[t]) = Entries(heap, root[t])
           /\ (last'.op = "subscript" /\ ~stored) =>
                 /\ sz'[t] = sz[t] + 1
                 /\ heap'[f].val = DefaultVal
                 /\ Entries(heap', root'[t]) = Entries(heap, root[t]) \cup {<<k, DefaultVal>>}
           /\ last'.op = "write_subscript" =>
                 /\ sz' = sz
                 /\ heap'[f].val = last'.v
                 /\ Entries(heap', root'[t]) =
                      {e \in Entries(heap, root[t]) : e[1] # k} \cup {<<k, last'.v>>}
    ]_vars
\* A value other than the default has been assigned through m[k] to an entry
\* below the true root of a tree of at least three entries.
C14_Witness ==
  /\ ~fault /\ last.op = "write_subscript" /\ last.v # DefaultVal /\ sz[1] >= 3
  /\ last.ret # heap[root[1]].left
  /\ <<last.k, last.v>> \in Entries(heap, root[1])

\* C15: a tree produced from m1 by copy construction or copy assignment
\* (whatever it held before) starts with m1's size() and m1's in-order
\* key/value sequence and shares no node with it; any later value write,
\* insert, erase or clear on one of the two trees leaves the size and the
\* key/value sequence of the other unchanged.
C15_CopyIndependent ==
  [][~fault =>
       LET t == last'.t
       IN  /\ last'.op \in {"copy", "assign"} =>
                /\ ~fault'
                /\ sz'[t] = sz[1]
                /\ WalkEntries(heap', root'[t]) = WalkEntries(heap, root[1])
                /\ sz'[1] = sz[1]
                /\ WalkEntries(heap', root'[1]) = WalkEntries(heap, root[1])
           /\ \A u \in Tree \ {t} :
                (Constructed(u) /\ last'.op # "avl") =>
                   /\ sz'[u] = sz[u]
                   /\ WalkEntries(heap', root'[u]) = WalkEntries(heap, root[u])
           /\ (\A u \in Tree : root'[u] # nullptr) =>
                Reach(heap', root'[1]) \cap Reach(heap', root'[2]) = {}
    ]_vars
\* m2 is a copy of m1 (it still holds an indeterminate height) and a value
\* has since been assigned through m2[k]: both trees hold the same keys, and
\* differ in the value under k.
C15_Witness ==
  /\ ~fault /\ Constructed(2) /\ last.op = "write_subscript" /\ last.t = 2
  /\ \E n \in subtree(heap, root[2]) : is_external(heap, n) /\ heap[n].height # 0
  /\ sz[1] = 2
  /\ StoredKeys(heap, root[1]) = StoredKeys(heap, root[2])
  /\ <<last.k, last.v>> \in Entries(heap, root[2])
  /\ <<last.k, last.v>> \notin Entries(heap, root[1])

\* C16: in every reachable non-empty tree the walk from begin() with ++ until
\* end() and the walk from end() with -- until begin() visit the same
\* entries, the backward walk in the reverse of the forward order; in an
\* empty tree begin() == end().
C16_IteratorsAgree ==
  ~fault =>
    LET rt == root[1]
    IN  IF InternalNodes(heap, rt) = {}
        THEN begin(heap, rt) = end(heap, rt)
        ELSE /\ Len(Walk(heap, rt)) = Cardinality(InternalNodes(heap, rt))
             /\ BackWalk(heap, rt) = Reverse(Walk(heap, rt))
\* A tree of three entries that an erase left with a true root whose subtree
\* heights differ by two.
C16_Witness ==
  /\ ~fault /\ sz[1] = 3 /\ Len(BackWalk(heap, root[1])) = 3
  /\ LET r == heap[root[1]].left
     IN  Height(heap, heap[r].left) - Height(heap, heap[r].right) \in {-2, 2}

\* C17: clear() on any reachable tree leaves the empty-tree state: size() is
\* 0, empty() is true, begin() == end(), find(k) == end() for every key k,
\* and the tree is the one a constructor builds (a super-root with two
\* external children), so that later calls behave as on a new tree.
FreshHeap == expand(New(<<>>, 1, NewCell(DefaultKey, DefaultVal)), 1)
C17_ClearEmpties ==
  (~fault /\ last.op = "clear") =>
    LET rt == root[last.t]
    IN  /\ size(sz[last.t]) = 0
        /\ empty(sz[last.t])
        /\ begin(heap, rt) = end(heap, rt)
        /\ \A k \in Keys : find(heap, rt, k) = end(heap, rt)
        /\ rt = 1 /\ TreeOf(heap, rt) = TreeOf(FreshHeap, 1)
\* clear() has returned on a tree that held at least three entries.
C17_Witness ==
  /\ ~fault /\ last.op = "clear" /\ last.num >= 3
  /\ InternalNodes(heap, root[1]) = {}

\* C18: after every completed insert, operator[], erase or clear call every
\* node below the super-root stores its actual height: 0 for an external
\* node, 1 + max(height(left), height(right)) for an internal node.
HeightCorrect(h, rt) ==
  \A n \in Reach(h, h[rt].left) : h[n].height = Height(h, n)
C18_HeightsCorrect == ~fault => HeightCorrect(heap, root[1])

\* C19: after copy construction or copy assignment every node of the copy
\* stores the same height as the corresponding node of the source.
PreHeights(h, rt) ==
  With(preorder(h, <<rt>>, <<>>), LAMBDA order : [i \in DOMAIN order |-> h[order[i]].height])
C19_CopyKeepsHeights ==
  [][(~fault /\ last'.op \in {"copy", "assign"}) =>
       PreHeights(heap', root'[last'.t]) = PreHeights(heap, root[1])
    ]_vars

\* C20: the rebalance run started by an insert cannot fail on any tree
\* reachable by inserts and erases: the tall grandchild chosen at an
\* unbalanced node is internal and neither restructure nor set_height is
\* applied to an external node, so no missing child is dereferenced.
C20_RebalanceCannotFail ==
  [][(~fault /\ last'.op \in {"insert", "subscript"}) => ~fault']_vars

\* C4: erase(position), for a position that denotes a stored entry with key
\* k, returns an iterator to the entry holding the smallest remaining key
\* greater than k, or end() if k was the largest key.
SetMin(S) == CHOOSE x \in S : \A y \in S : x <= y
C4_EraseReturnsSuccessor ==
  (~fault /\ last.op = "erase_pos" /\ ~last.thrown /\ last.pos # root[last.t]) =>
    LET rt      == root[last.t]
        greater == {k \in StoredKeys(heap, rt) : k > last.k}
    IN  IF greater = {} THEN last.ret = end(heap, rt)
        ELSE /\ is_internal(heap, last.ret)
             /\ heap[last.ret].key = SetMin(greater)

\* C5: insert((k, v)) for a key k not stored returns (iterator, true), the
\* iterator denotes an entry reachable from begin() holding k and v, size()
\* grows by exactly 1, the stored keys become the old ones plus k and every
\* previously stored key keeps its value.
InsertStep(stored) ==
  /\ ~fault /\ last'.op = "insert"
  /\ (last'.k \in StoredKeys(heap, root[last'.t])) = stored
C5_InsertAbsent ==
  [][InsertStep(FALSE) =>
       LET t == last'.t
       IN  /\ ~fault'
           /\ last'.num = 1
           /\ last'.ret \in Range(Walk(heap', root'[t]))
           /\ heap'[last'.ret].key = last'.k
           /\ heap'[last'.ret].val = last'.v
           /\ sz'[t] = sz[t] + 1
           /\ StoredKeys(heap', root'[t]) = StoredKeys(heap, root[t]) \cup {last'.k}
           /\ Entries(heap', root'[t]) = Entries(heap, root[t]) \cup {<<last'.k, last'.v>>}
    ]_vars
\* An insert of a new key that took a double rotation: the new node is now
\* the true root of a three-entry tree.
C5_Witness ==
  /\ ~fault /\ last.op = "insert" /\ last.num = 1 /\ sz[1] = 3
  /\ last.ret = heap[root[1]].left

\* C6: insert((k, v)) for a key k already stored returns (iterator to the
\* existing entry, false) and mutates nothing: size(), the structure, the
\* stored heights and the value under k are unchanged.
C6_InsertExisting ==
  [][InsertStep(TRUE) =>
       LET t == last'.t
       IN  /\ ~fault'
           /\ last'.num = 0
           /\ last'.ret = find(heap, root[t], last'.k)
           /\ root' = root
           /\ sz' = sz
           /\ TreeOf(heap', root'[t]) = TreeOf(heap, root[t])
    ]_vars
\* An insert of a stored key with a value other than the stored one.
C6_Witness ==
  /\ ~fault /\ last.op = "insert" /\ last.num = 0
  /\ heap[last.ret].key = last.k /\ heap[last.ret].val # last.v

\* C7: erase(k) for a stored key k returns 1, decreases size() by exactly 1,
\* afterwards find(k) == end() and count(k) == 0, and every other stored key
\* remains stored with its value unchanged.
EraseKeyStep(stored) ==
  /\ ~fault /\ last'.op = "erase_key"
  /\ (last'.k \in StoredKeys(heap, root[last'.t])) = stored
C7_EraseStored ==
  [][EraseKeyStep(TRUE) =>
       LET t == last'.t
       IN  /\ ~fault'
           /\ last'.num = 1
           /\ sz'[t] = sz[t] - 1
           /\ find(heap', root'[t], last'.k) = end(heap', root'[t])
           /\ count(heap', root'[t], last'.k) = 0
           /\ Entries(heap', root'[t]) =
                {e \in Entries(heap, root[t]) : e[1] # last'.k}
    ]_vars
\* An erase by key from a full tree of a key that had stored keys on both
\* sides of it.
C7_Witness ==
  /\ ~fault /\ last.op = "erase_key" /\ last.num = 1 /\ sz[1] = MaxKey
  /\ \E k1 \in StoredKeys(heap, root[1]) : k1 < last.k
  /\ \E k2 \in StoredKeys(heap, root[1]) : k2 > last.k

\* C8: erase(k) for a key k that is not stored returns 0 and leaves the tree
\* structurally unchanged: same nodes, links, keys, values, stored heights and
\* size(); repeating it has the same result.
C8_EraseAbsent ==
  [][EraseKeyStep(FALSE) =>
       LET t == last'.t
       IN  /\ ~fault'
           /\ last'.num = 0
           /\ root' = root
           /\ sz' = sz
           /\ TreeOf(heap', root'[t]) = TreeOf(heap, root[t])
    ]_vars
\* An erase of an absent key on a tree that holds other keys.
C8_Witness ==
  /\ ~fault /\ last.op = "erase_key" /\ last.num = 0 /\ sz[1] >= 2
  /\ last.k \notin StoredKeys(heap, root[1])

\* C9: find(k) returns an iterator denoting the entry whose key is k when k
\* is stored and end() when it is not; count(k) is 1 exactly when
\* find(k) != end(); neither call changes the tree.
C9_FindCount ==
  [][(~fault /\ last'.op \in {"find", "count"}) =>
       LET t      == last'.t
           k      == last'.k
           stored == k \in StoredKeys(heap, root[t])
           f      == find(heap, root[t], k)
       IN  /\ ~fault'
           /\ stored => (f \in Range(Walk(heap, root[t])) /\ heap[f].key = k)
           /\ ~stored => f = end(heap, root[t])
           /\ count(heap, root[t], k) = (IF f # end(heap, root[t]) THEN 1 ELSE 0)
           /\ last'.op = "find" => last'.ret = f
           /\ last'.op = "count" => last'.num = (IF stored THEN 1 ELSE 0)
           /\ root' = root
           /\ sz' = sz
           /\ TreeOf(heap', root'[t]) = TreeOf(heap, root[t])
    ]_vars
\* find of a stored key that is not at the true root, in an unbalanced tree.
C9_Witness ==
  /\ ~fault /\ last.op = "find" /\ last.ret # root[1]
  /\ last.ret # heap[root[1]].left
  /\ ~Balanced(heap, root[1])

\* C10 as stated: insert((k, v)) immediately followed by at(k) returns v.
InsertThenAt ==
  /\ ~fault /\ last.op = "insert" /\ last'.op = "at"
  /\ last'.t = last.t /\ last'.k = last.k
C10_InsertThenAtReturnsV ==
  [][InsertThenAt => (~last'.thrown /\ heap'[last'.ret].val = last.v)]_vars
\* C10 amended: at(k) returns v when the insert stored k (it returned true),
\* and the value that was already stored under k when it returned false.
C10_InsertThenAt ==
  [][InsertThenAt =>
       /\ ~fault' /\ ~last'.thrown
       /\ last.num = 1 => heap'[last'.ret].val = last.v
       /\ last.num = 0 => heap'[last'.ret].val = heap[last.ret].val
    ]_vars
\* at(k) right after an insert that stored k with a non-default value.
C10_Witness ==
  /\ ~fault /\ last.op = "at" /\ ~last.thrown
  /\ heap[last.ret].key = last.k /\ heap[last.ret].val # DefaultVal
  /\ sz[1] >= 3

\* C21: an insert or operator[] of a key that is not stored, made on a tree
\* that satisfies BST order, AVL balance and height correctness, returns and
\* leaves a tree that satisfies all three again; the empty tree a constructor
\* builds satisfies them, so they hold after any sequence of insert and
\* operator[] calls alone.
AvlInvariants(h, rt) == BstOrder(h, rt) /\ Balanced(h, rt) /\ HeightCorrect(h, rt)
C21_InsertStep ==
  /\ ~fault /\ last'.op \in {"insert", "subscript"}
  /\ last'.k \notin StoredKeys(heap, root[last'.t])
  /\ AvlInvariants(heap, root[last'.t])
C21_InsertPreservesAvl ==
  /\ AvlInvariants(heap, root[1])
  /\ [][C21_InsertStep => (~fault' /\ AvlInvariants(heap', root'[last'.t]))]_vars
\* An insert has returned on a tree of at least five entries after a double
\* rotation below the true root: the new node holds two internal children and
\* its parent is an entry, and the tree satisfies the three invariants.
C21_Witness ==
  /\ ~fault /\ last.op = "insert" /\ last.num = 1 /\ sz[1] >= 5
  /\ is_internal(heap, heap[last.ret].left) /\ is_internal(heap, heap[last.ret].right)
  /\ heap[last.ret].parent # root[1]
  /\ AvlInvariants(heap, root[1])

\* C22: after every completed public call the nodes reachable from the
\* super-root form a proper binary tree: each is a live node with two
\* children or none, each child's parent link points back to its holder, the
\* super-root has no parent, its left child is the true root (the node the
\* lookups start from) and its right child is external, and no node is
\* reached along two different paths.
RECURSIVE Visits(_, _, _)
Visits(h, n, fuel) ==
  IF n = nullptr \/ fuel = 0 THEN <<>>
  ELSE <<n>> \o Visits(h, h[n].left, fuel - 1) \o Visits(h, h[n].right, fuel - 1)
WellFormed(h, rt) ==
  /\ \A n \in Reach(h, rt) :
       /\ h[n].alloc
       /\ (h[n].left = nullptr) <=> (h[n].right = nullptr)
       /\ h[n].left # nullptr => h[h[n].left].parent = n
       /\ h[n].right # nullptr => h[h[n].right].parent = n
  /\ h[rt].parent = nullptr
  /\ h[rt].left # nullptr /\ h[rt].right # nullptr
  /\ is_external(h, h[rt].right)
  /\ With(Visits(h, rt, Len(h) + 1), LAMBDA q : Len(q) = Cardinality(Range(q)))
C22_WellFormedTree ==
  ~fault => \A t \in Tree : Constructed(t) => WellFormed(heap, root[t])
\* An erase has just removed an entry and left a tree of at least two entries
\* that is not balanced.
C22_Witness ==
  /\ ~fault /\ last.op \in {"erase_key", "erase_pos"} /\ ~last.thrown
  /\ sz[1] >= 2 /\ ~Balanced(heap, root[1])
  /\ WellFormed(heap, root[1])

\* C23: an insert or operator[] of a key that is not stored, made on a tree
\* that satisfies AVL balance and height correctness, calls restructure at
\* most once, and the walk still recomputes the heights up to the true root:
\* afterwards every node stores its actual height.
C23_InsertStep ==
  /\ ~fault /\ last'.op \in {"insert", "subscript"}
  /\ last'.k \notin StoredKeys(heap, root[last'.t])
  /\ Balanced(heap, root[last'.t]) /\ HeightCorrect(heap, root[last'.t])
C23_AtMostOneRestructure ==
  [][C23_InsertStep =>
       /\ Len(inserterCalls(heap, root[last'.t], last'.k, last'.v)) <= 1
       /\ ~fault'
       /\ HeightCorrect(heap', root'[last'.t])
    ]_vars
\* operator[] has filled the tree after a double rotation below the true
\* root: the new node holds two internal children, its parent is an entry and
\* the true root stores its actual height, 3.
C23_Witness ==
  /\ ~fault /\ last.op = "subscript" /\ sz[1] = MaxKeyRebal + 1
  /\ is_internal(heap, heap[last.ret].left) /\ is_internal(heap, heap[last.ret].right)
  /\ heap[last.ret].parent # root[1]
  /\ heap[heap[root[1]].left].height = 3
  /\ HeightCorrect(heap, root[1])

\* What one call c of restructure did, read off the heaps before and after
\* it: the nodes outside the trinode whose parent link changed.
Transplanted(c) ==
  With(trinode(c.before, c.x), LAMBDA abc :
    {n \in DOMAIN c.before \ Range(abc) : c.after[n].parent # c.before[n].parent})
\* The call kept the in-order key sequence of the tree with super-root rt, put
\* the in-order middle node b with children a and c into the slot that held
\* z, and changed nothing else but the parent links of subtrees that hung
\* below b.
RestructureFrame(c, rt) ==
  LET h0  == c.before
      h1  == c.after
      y   == h0[c.x].parent
      z   == h0[y].parent
      zp  == h0[z].parent
      abc == trinode(h0, c.x)
      a   == abc[1]
      b   == abc[2]
      cc  == abc[3]
  IN  /\ WalkKeys(h1, rt) = WalkKeys(h0, rt)
      /\ StrictlyIncreasing(WalkKeys(h1, rt))
      /\ {a, b, cc} = {c.x, y, z}
      /\ is_internal(h0, c.x) => (h0[a].key < h0[b].key /\ h0[b].key < h0[cc].key)
      /\ h1[b].parent = zp
      /\ IF h0[zp].left = z THEN h1[zp].left = b ELSE h1[zp].left = h0[zp].left
      /\ IF h0[zp].right = z THEN h1[zp].right = b ELSE h1[zp].right = h0[zp].right
      /\ h1[b].left = a /\ h1[b].right = cc /\ h1[a].parent = b /\ h1[cc].parent = b
      /\ DOMAIN h1 = DOMAIN h0
      /\ \A n \in DOMAIN h0 :
           /\ h1[n].alloc = h0[n].alloc /\ h1[n].key = h0[n].key
           /\ h1[n].val = h0[n].val /\ h1[n].height = h0[n].height
           /\ n \notin {a, b, cc, zp} => (h1[n].left = h0[n].left /\ h1[n].right = h0[n].right)
           /\ n = zp => h1[n].parent = h0[n].parent
      /\ \A n \in Transplanted(c) : h0[n].parent = b /\ h1[n].parent \in {a, cc}
RestructureCalls == inserterCalls(heap, root[last'.t], last'.k, last'.v)
C24_Step == ~fault /\ last'.op \in {"insert", "subscript"}

\* C24 as stated: every call of restructure keeps the in-order key sequence,
\* makes b the local root in the slot that held the unbalanced node, changes
\* links only of a, b, c and that slot, and gives at most one subtree a new
\* parent.
C24_OneTransplant ==
  [][C24_Step =>
       With(RestructureCalls, LAMBDA q :
         \A i \in DOMAIN q :
           /\ RestructureFrame(q[i], root[last'.t])
           /\ Cardinality(Transplanted(q[i])) <= 1)
    ]_vars
\* C24 amended: the same, with exactly one subtree given a new parent by a
\* single rotation (b is x's parent: its inner subtree) and exactly two by a
\* double rotation (b is x: both of its subtrees).
C24_Restructure ==
  [][C24_Step =>
       With(RestructureCalls, LAMBDA q :
         \A i \in DOMAIN q :
           /\ RestructureFrame(q[i], root[last'.t])
           /\ Cardinality(Transplanted(q[i])) =
                (IF trinode(q[i].before, q[i].x)[2] = q[i].x THEN 2 ELSE 1))
    ]_vars
\* An insert has returned after a double rotation at the right child of the
\* true root of a tree that now holds five entries: the new node took that
\* place with two leaves below it.
C24_Witness ==
  /\ ~fault /\ last.op = "insert" /\ last.num = 1 /\ sz[1] = 5
  /\ last.ret = heap[heap[root[1]].left].right
  /\ is_internal(heap, heap[last.ret].left) /\ is_internal(heap, heap[last.ret].right)
  /\ heap[heap[last.ret].left].height = 1 /\ heap[heap[last.ret].right].height = 1

\* C25: node identity carries position.  An insert or operator[] destroys no
\* node and changes the key or value of no node that existed before it, the
\* external node it promotes (which receives the new entry) apart.  An erase
\* that removes an entry destroys exactly one internal and one external
\* node; every surviving node keeps its key and value, except that when the
\* erased entry has two internal children its node survives, now holding the
\* key and value of its in-order successor, and the node that held the
\* successor is the internal node destroyed.
InsertKeepsNodes(h, rt, s, k, v) ==
  With(inserter(h, rt, s, k, v), LAMBDA r :
  With(finder(h, rt, k), LAMBDA n :
    /\ \A m \in Reach(h, rt) :
         /\ r.h[m].alloc
         /\ (m # n \/ is_internal(h, n)) => (r.h[m].key = h[m].key /\ r.h[m].val = h[m].val)
    /\ is_external(h, n) => (r.h[n].key = k /\ r.h[n].val = v)))
EraseKeepsNodes(h, rt, s, k) ==
  With(finder(h, rt, k), LAMBDA n :
  With(eraser(h, s, n), LAMBDA e :
  With({m \in Reach(h, rt) : ~e.h[m].alloc}, LAMBDA dead :
    /\ Cardinality({m \in dead : is_internal(h, m)}) = 1
    /\ Cardinality({m \in dead : is_external(h, m)}) = 1
    /\ \A m \in Reach(h, rt) \ (dead \cup {n}) :
         e.h[m].key = h[m].key /\ e.h[m].val = h[m].val
    /\ IF is_internal(h, h[n].left) /\ is_internal(h, h[n].right)
       THEN LET succ == CHOOSE m \in InternalNodes(h, rt) :
                          /\ h[m].key > k
                          /\ \A o \in InternalNodes(h, rt) : h[o].key > k => h[m].key <= h[o].key
            IN  /\ n \notin dead
                /\ succ \in dead
                /\ e.h[n].key = h[succ].key /\ e.h[n].val = h[succ].val
       ELSE n \in dead)))
ExternalNodes(h, rt) == {n \in Reach(h, h[rt].left) : is_external(h, n)}
AllExternalNodes(h, rt) == {n \in Reach(h, rt) : is_external(h, n)}

\* C26 as stated: after every completed public call a tree holding n entries
\* has exactly 2n+1 external nodes (counted without or with the super-root's
\* right child).
C26_ExternalCountTwoNPlusOne ==
  ~fault => \A t \in Tree : Constructed(t) =>
    \/ Cardinality(ExternalNodes(heap, root[t])) = 2 * size(sz[t]) + 1
    \/ Cardinality(AllExternalNodes(heap, root[t])) = 2 * size(sz[t]) + 1
\* C26 amended: after every completed public call a tree holding n entries
\* has exactly n+1 external nodes below the true root's slot (n+2 with the
\* super-root's right child); 2n+1 is the number of all nodes, internal and
\* external, below that slot.
C26_ExternalCount ==
  ~fault => \A t \in Tree : Constructed(t) =>
    /\ Cardinality(ExternalNodes(heap, root[t])) = size(sz[t]) + 1
    /\ Cardinality(AllExternalNodes(heap, root[t])) = size(sz[t]) + 2
    /\ Cardinality(Reach(heap, heap[root[t]].left)) = 2 * size(sz[t]) + 1
\* An insert has filled the tree: MaxKey + 1 entries and MaxKey + 2 external
\* nodes below the true root's slot.
C26_Witness ==
  /\ ~fault /\ last.op = "insert" /\ last.num = 1 /\ sz[1] = MaxKey + 1
  /\ Cardinality(ExternalNodes(heap, root[1])) = MaxKey + 2

====
